---------------------------- MODULE Spec2Model ----------------------------
(***************************************************************************)
(* State-machine model of the Telegram reminder bot in src/bot.py:        *)
(* the remind / list / cancel command handlers, the send_reminder timer   *)
(* callback, the per-chat registry chat_data["jobs"] and the job queue.   *)
(*                                                                         *)
(* Strings are sequences of one-character strings, so that lstrip, lower, *)
(* the duration regular expression and strptime are computed, not assumed.*)
(* The module language is ASCII only: the Cyrillic letters the program    *)
(* uses are written as the placeholders "cyr_x" (lower) / "CYR_X" (upper),*)
(* each standing for exactly one character.                               *)
(*                                                                         *)
(* Time is in whole seconds on one wall clock.  Instant 0 is              *)
(* 2024-12-31 17:58:58, so that the minute boundaries 17:59 (instant 2)   *)
(* and 18:00 (instant 62) fall inside or just outside small clock bounds. *)
(***************************************************************************)
EXTENDS Integers, Sequences, FiniteSets, TLC

VARIABLES
    clock,      \* the wall clock read by datetime.now() and time.time()
    chat_data,  \* chat_id -> chat_data["jobs"], an insertion-ordered dict
    jobs,       \* every Job object handed out by the job queue, by handle
    deletes,    \* number of pending delete_message_job timers
    last,       \* the last command handler that ran and what it replied
    hist,       \* ghost: per job handle, what has happened to it so far
    calc        \* a duration text, what parse_duration and humanize_delta
                \* make of it, and (ghost) the pairs it was written from

vars == <<clock, chat_data, jobs, deletes, last, hist, calc>>

---------------------------------------------------------------------------
(* Bounds of the model *)

\* Largest value of the wall clock.
MaxClock == 2

\* Largest number of reminder jobs ever created in one behaviour.
MaxJobs == 2

\* Largest number of delete_message_job timers pending at once.
MaxDeletes == 2

\* Largest number of reminder jobs created in the interpreter specification.
MaxInterpJobs == 1

\* reminders created in the runs that study cancel
MaxCancelJobs == 1

\* reminders created in the runs that study rejected commands
MaxRejectJobs == 1

\* (integer, unit) pairs in one duration text
MaxPairs == 2

\* reminders created in the runs with one-shot reminders only
MaxOneShotJobs == 2

\* reminders created in the runs with two chats
MaxChatsJobs == 2

\* reminders created in the runs with a fair scheduler
MaxFairJobs == 1

---------------------------------------------------------------------------
(* Characters and strings *)

DigitChars == <<"0", "1", "2", "3", "4", "5", "6", "7", "8", "9">>

UpperChars ==
    <<"A", "B", "C", "D", "E", "F", "G", "H", "I", "J", "K", "L", "M",
      "N", "O", "P", "Q", "R", "S", "T", "U", "V", "W", "X", "Y", "Z",
      "CYR_V", "CYR_S", "CYR_E", "CYR_M", "CYR_K", "CYR_A", "CYR_ZH",
      "CYR_D", "CYR_Y", "CYR_J">>

LowerChars ==
    <<"a", "b", "c", "d", "e", "f", "g", "h", "i", "j", "k", "l", "m",
      "n", "o", "p", "q", "r", "s", "t", "u", "v", "w", "x", "y", "z",
      "cyr_v", "cyr_s", "cyr_e", "cyr_m", "cyr_k", "cyr_a", "cyr_zh",
      "cyr_d", "cyr_y", "cyr_j">>

DigitSet == {DigitChars[i] : i \in 1..Len(DigitChars)}

UpperSet == {UpperChars[i] : i \in 1..Len(UpperChars)}

\* int(ch) of each digit
DigitValues ==
    [ch \in DigitSet |-> (CHOOSE i \in 1..Len(DigitChars) : DigitChars[i] = ch) - 1]

\* the lower-case letter of each upper-case letter
LowerOfUpper ==
    [ch \in UpperSet |->
        LowerChars[CHOOSE i \in 1..Len(UpperChars) : UpperChars[i] = ch]]

IsDigit(ch) == ch \in DigitSet

DigitVal(ch) == DigitValues[ch]

IsSpace(ch) == ch = " "

\* str.lower() on one character
LowerChar(ch) == IF ch \in UpperSet THEN LowerOfUpper[ch] ELSE ch

\* str.lower()
Lower(s) == [i \in 1..Len(s) |-> LowerChar(s[i])]

\* s[i:] with a 1-based first index
From(s, i) == IF i > Len(s) THEN <<>> ELSE SubSeq(s, i, Len(s))

RECURSIVE LStripChars(_, _)
\* str.lstrip(chars)
LStripChars(s, chars) ==
    IF s # <<>> /\ Head(s) \in chars THEN LStripChars(Tail(s), chars) ELSE s

RECURSIVE RStripChars(_, _)
\* str.rstrip(chars)
RStripChars(s, chars) ==
    IF s # <<>> /\ s[Len(s)] \in chars
    THEN RStripChars(SubSeq(s, 1, Len(s) - 1), chars)
    ELSE s

\* str.strip()
Strip(s) == RStripChars(LStripChars(s, {" "}), {" "})

RECURSIVE Join(_)
\* " ".join(tokens)
Join(tokens) ==
    IF tokens = <<>> THEN <<>>
    ELSE IF Len(tokens) = 1 THEN tokens[1]
    ELSE tokens[1] \o <<" ">> \o Join(Tail(tokens))

\* html.escape on one character (quote=True)
EscapeChar(ch) ==
    CASE ch = "&" -> <<"&", "a", "m", "p", ";">>
      [] ch = "<" -> <<"&", "l", "t", ";">>
      [] ch = ">" -> <<"&", "g", "t", ";">>
      [] ch = "\"" -> <<"&", "q", "u", "o", "t", ";">>
      [] ch = "'" -> <<"&", "#", "x", "2", "7", ";">>
      [] OTHER -> <<ch>>

RECURSIVE HtmlEscape(_)
\* html.escape(s)
HtmlEscape(s) ==
    IF s = <<>> THEN <<>> ELSE EscapeChar(Head(s)) \o HtmlEscape(Tail(s))

RECURSIVE DigitRunEnd(_, _)
\* index just after the maximal run of digits of s that starts at i
DigitRunEnd(s, i) ==
    IF i <= Len(s) /\ IsDigit(s[i]) THEN DigitRunEnd(s, i + 1) ELSE i

RECURSIVE SpaceRunEnd(_, _)
\* index just after the maximal run of whitespace of s that starts at i
SpaceRunEnd(s, i) ==
    IF i <= Len(s) /\ IsSpace(s[i]) THEN SpaceRunEnd(s, i + 1) ELSE i

RECURSIVE NumVal(_, _, _)
\* int(s[i:j]) for a run of decimal digits
NumVal(s, i, j) ==
    IF j <= i THEN 0 ELSE NumVal(s, i, j - 1) * 10 + DigitVal(s[j - 1])

RECURSIVE IntToChars(_)
\* str(n) for n >= 0
IntToChars(n) ==
    IF n < 10 THEN <<DigitChars[n + 1]>>
    ELSE IntToChars(n \div 10) \o <<DigitChars[(n % 10) + 1]>>

\* str(n) for any integer, as an f-string formats it
FormatInt(n) == IF n < 0 THEN <<"-">> \o IntToChars(-n) ELSE IntToChars(n)

---------------------------------------------------------------------------
(* parse_duration: _DURATION_RE.findall and the sum of the pairs.          *)
(* An absent value (None) of Optional[timedelta] is written 0: the function*)
(* never returns a zero timedelta and the program only tests truthiness.   *)

\* UnitSeconds counting an hour as a minute
UnitSecondsShortHour(u) ==
    CASE u = "s" -> 1
      [] u = "m" -> 60
      [] u = "h" -> 60
      [] u = "d" -> 86400
      [] OTHER -> 0

UnitSeconds(u) ==
    CASE u = "s" -> 1
      [] u = "m" -> 60
      [] u = "h" -> 3600
      [] u = "d" -> 86400
      [] OTHER -> 0

IsUnit(ch) == LowerChar(ch) \in {"s", "m", "h", "d"}

RECURSIVE DurationScan(_, _, _)
\* the matches of (\d+)\s*([smhd]) in s from index i on, accumulated in acc
DurationScan(s, i, acc) ==
    IF i > Len(s) THEN acc
    ELSE IF IsDigit(s[i])
    THEN LET j == DigitRunEnd(s, i)
             k == SpaceRunEnd(s, j)
         IN  IF k <= Len(s) /\ IsUnit(s[k])
             THEN DurationScan(s, k + 1,
                    [matches |-> acc.matches + 1,
                     total |-> acc.total
                                 + NumVal(s, i, j) * UnitSeconds(LowerChar(s[k]))])
             ELSE DurationScan(s, j, acc)
    ELSE DurationScan(s, i + 1, acc)

\* the value None of Optional[timedelta]
NoDuration == [ok |-> FALSE, seconds |-> 0]

\* parse_duration, lines 42-60, for the matches and their sum r: None or a
\* timedelta of r.total seconds
DurationOrNone(r) ==
    IF r.matches = 0 THEN NoDuration
    ELSE IF r.total <= 0 THEN NoDuration
    ELSE [ok |-> TRUE, seconds |-> r.total]

\* DurationOrNone with None written 0
DurationOf(r) == IF DurationOrNone(r).ok THEN DurationOrNone(r).seconds ELSE 0

parse_duration(spec) == DurationOf(DurationScan(spec, 1, [matches |-> 0, total |-> 0]))

\* parse_duration with None kept apart from every timedelta
ParsedDuration(spec) ==
    DurationOrNone(DurationScan(spec, 1, [matches |-> 0, total |-> 0]))

---------------------------------------------------------------------------
(* humanize_delta: divmod by each unit in turn, largest first *)

HumanizeUnits ==
    << [unit_seconds |-> 86400, suffix |-> "d"],
       [unit_seconds |-> 3600, suffix |-> "h"],
       [unit_seconds |-> 60, suffix |-> "m"],
       [unit_seconds |-> 1, suffix |-> "s"] >>

RECURSIVE HumanizeParts(_, _, _)
\* the loop of lines 83-91 from the i-th unit on: the list parts
HumanizeParts(seconds, i, parts) ==
    IF i > Len(HumanizeUnits) THEN parts
    ELSE HumanizeParts(seconds % HumanizeUnits[i].unit_seconds, i + 1,
            IF seconds \div HumanizeUnits[i].unit_seconds # 0
            THEN Append(parts,
                   FormatInt(seconds \div HumanizeUnits[i].unit_seconds)
                      \o <<HumanizeUnits[i].suffix>>)
            ELSE parts)

\* HumanizeJoin with the smallest unit first
HumanizeJoinBackwards(parts) ==
    IF parts # <<>>
    THEN Join([i \in 1..Len(parts) |-> parts[Len(parts) + 1 - i]])
    ELSE <<"0", "s">>

\* line 92: " ".join(parts) if parts else "0s"
HumanizeJoin(parts) == IF parts # <<>> THEN Join(parts) ELSE <<"0", "s">>

\* humanize_delta of a timedelta of that many whole seconds
humanize_delta(seconds) == HumanizeJoin(HumanizeParts(seconds, 1, <<>>))

\* what the program computes from the duration text spec written from pairs
CalcOf(pairs, spec, parsed) ==
    [pairs |-> pairs, spec |-> spec, duration |-> parsed,
     text |-> IF parsed.ok THEN humanize_delta(parsed.seconds) ELSE <<>>]

Calc(pairs, spec) == CalcOf(pairs, spec, ParsedDuration(spec))

---------------------------------------------------------------------------
(* parse_datetime_spec: datetime.strptime on the two formats *)

IsLeap(y) == (y % 4 = 0 /\ y % 100 # 0) \/ y % 400 = 0

DaysInMonth(y, m) ==
    IF m = 2 THEN (IF IsLeap(y) THEN 29 ELSE 28)
    ELSE IF m \in {4, 6, 9, 11} THEN 30 ELSE 31

\* days from 1970-01-01 to the civil date y-m-d
DaysFromCivil(y, m, d) ==
    LET yy == IF m <= 2 THEN y - 1 ELSE y
        era == yy \div 400
        yoe == yy - era * 400
        mp == IF m > 2 THEN m - 3 ELSE m + 9
        doy == (153 * mp + 2) \div 5 + d - 1
        doe == yoe * 365 + yoe \div 4 - yoe \div 100 + doy
    IN  era * 146097 + doe - 719468

\* the instant of a naive datetime, in seconds after 2024-12-31 17:58:58
Instant(y, m, d, hh, mm) ==
    (DaysFromCivil(y, m, d) - DaysFromCivil(2024, 12, 31)) * 86400
        + hh * 3600 + mm * 60 - (17 * 3600 + 58 * 60 + 58)

NoDatetime == [ok |-> FALSE, due_at |-> 0, consumed |-> 0]

\* the index after the separator sep of a format at index j of value, or 0
\* when value does not hold it there: a literal "-" or ":", the letter T in
\* either case (strptime matches without regard to case), or whitespace
AfterSep(value, j, sep) ==
    IF j > Len(value) THEN 0
    ELSE IF sep = " " THEN (IF SpaceRunEnd(value, j) > j THEN SpaceRunEnd(value, j) ELSE 0)
    ELSE IF LowerChar(value[j]) = LowerChar(sep) THEN j + 1
    ELSE 0

RECURSIVE ScanFields(_, _, _, _)
\* the digit fields of value from index i on, each followed by the next
\* separator of seps and the last by the end of value, as <<first, end>>
\* pairs appended to acc; the empty sequence when value has another shape
ScanFields(value, i, seps, acc) ==
    IF DigitRunEnd(value, i) = i THEN <<>>
    ELSE IF seps = <<>>
    THEN IF DigitRunEnd(value, i) = Len(value) + 1
         THEN Append(acc, <<i, DigitRunEnd(value, i)>>)
         ELSE <<>>
    ELSE IF AfterSep(value, DigitRunEnd(value, i), Head(seps)) = 0 THEN <<>>
    ELSE ScanFields(value, AfterSep(value, DigitRunEnd(value, i), Head(seps)),
                    Tail(seps), Append(acc, <<i, DigitRunEnd(value, i)>>))

\* the datetime of the five numbers v, when they are a date and a time
CheckedDatetime(v) ==
    IF /\ v[1] >= 1
       /\ v[2] \in 1..12
       /\ v[3] >= 1 /\ v[3] <= DaysInMonth(v[1], v[2])
       /\ v[4] \in 0..23
       /\ v[5] \in 0..59
    THEN [ok |-> TRUE, due_at |-> Instant(v[1], v[2], v[3], v[4], v[5])]
    ELSE [ok |-> FALSE, due_at |-> 0]

\* the fields f of value as a datetime: %Y is four digits, the others one or two
FieldsDatetime(value, f) ==
    IF /\ Len(f) = 5
       /\ f[1][2] - f[1][1] = 4
       /\ \A i \in 2..5 : f[i][2] - f[i][1] \in {1, 2}
    THEN CheckedDatetime([i \in 1..5 |-> NumVal(value, f[i][1], f[i][2])])
    ELSE [ok |-> FALSE, due_at |-> 0]

\* datetime.strptime(value, "%Y-%m-%dT%H:%M") when tsep, else with
\* "%Y-%m-%d %H:%M"; ok is FALSE where strptime raises ValueError
Strptime(value, tsep) ==
    FieldsDatetime(value,
        ScanFields(value, 1, <<"-", "-", IF tsep THEN "T" ELSE " ", ":">>, <<>>))

\* the first of the two parses a, b that succeeded
FirstFormat(a, b, consumed) ==
    IF a.ok THEN [ok |-> TRUE, due_at |-> a.due_at, consumed |-> consumed]
    ELSE IF b.ok THEN [ok |-> TRUE, due_at |-> b.due_at, consumed |-> consumed]
    ELSE NoDatetime

\* one candidate of parse_datetime_spec against _DATETIME_FORMATS, in order
TryFormats(value, consumed) ==
    FirstFormat(Strptime(value, FALSE), Strptime(value, TRUE), consumed)

\* the candidates in order: one is the outcome of tokens[0] alone
Candidates(one, tokens) ==
    IF one.ok THEN one
    ELSE IF Len(tokens) >= 2
    THEN TryFormats(tokens[1] \o <<" ">> \o tokens[2], 2)
    ELSE NoDatetime

parse_datetime_spec(tokens) ==
    IF tokens = <<>> THEN NoDatetime
    ELSE Candidates(TryFormats(tokens[1], 1), tokens)

---------------------------------------------------------------------------
(* The inputs of the handlers: chats, users, tokens and argument lists *)

\* chat ids: a private chat and a group
Chats == {42, -100}

\* the chat of the lifecycle specification
LifeChats == {42}
\* the chat of the commands given to the interpreter (a group chat)
InterpChats == {-100}

NoUser == [id |-> <<>>, username |-> <<>>, full_name |-> <<>>]

\* a user with a username
UserBob ==
    [id |-> <<"7">>, username |-> <<"b", "o", "b">>,
     full_name |-> <<"B", "o", "b">>]

\* a user without a username whose display name is "All"
UserAll ==
    [id |-> <<"8">>, username |-> <<>>, full_name |-> <<"A", "l", "l">>]

\* a user without a username whose display name holds markup characters
UserAmp ==
    [id |-> <<"9">>, username |-> <<>>, full_name |-> <<"N", "&", "K">>]

Users == {UserBob, UserAll, UserAmp}

\* message.reply_to_message: absent, or a message with its author and id
NoReply == [is_reply |-> FALSE, from_user |-> NoUser, message_id |-> 0]

ReplyTo(u) == [is_reply |-> TRUE, from_user |-> u, message_id |-> 5]

ReplyContexts == {NoReply} \cup {ReplyTo(u) : u \in Users}

tok_1s == <<"1", "s">>
tok_2s == <<"2", "s">>
tok_10m == <<"1", "0", "m">>
tok_1h == <<"1", "h">>
tok_0s == <<"0", "s">>
tok_every == <<"e", "v", "e", "r", "y">>
tok_Repeat == <<"R", "e", "p", "e", "a", "t">>
tok_Kazhdye == <<"CYR_K", "cyr_a", "cyr_zh", "cyr_d", "cyr_y", "cyr_e">>
tok_x == <<"x">>
tok_hi == <<"h", "i">>
tok_hello == <<"h", "e", "l", "l", "o">>
tok_bye == <<"b", "y", "e">>
tok_at_bob == <<"@", "b", "o", "b">>
tok_nik == <<"n", "i", "k">>
tok_ALL == <<"A", "L", "L">>
tok_at_vsem == <<"@", "CYR_V", "cyr_s", "cyr_e", "cyr_m">>
tok_at_bob1d == <<"@", "b", "o", "b", "1", "d">>
tok_date == <<"2", "0", "2", "4", "-", "1", "2", "-", "3", "1">>
tok_1759 == <<"1", "7", ":", "5", "9">>
tok_1800 == <<"1", "8", ":", "0", "0">>
tok_dt1759 ==
    <<"2", "0", "2", "4", "-", "1", "2", "-", "3", "1", "T", "1", "7", ":", "5", "9">>

\* argument lists of the lifecycle specification: a one-shot reminder and
\* a repeating one, both due one second after the command
LifeArgs ==
    { <<tok_1s, tok_x>>,
      <<tok_1s, tok_every, tok_1s, tok_x>> }

\* argument lists of the interpreter specification
InterpArgs ==
    { <<>>,
      <<tok_10m, tok_hello>>,
      <<tok_10m, tok_2s, tok_x>>,
      <<tok_at_bob, tok_10m, tok_hello>>,
      <<tok_nik, tok_2s>>,
      <<tok_ALL, tok_10m, tok_every, tok_1h, tok_hi>>,
      <<tok_at_vsem, tok_1s, tok_x>>,
      <<tok_at_bob>>,
      <<tok_hello, tok_x>>,
      <<tok_at_bob1d, tok_10m, tok_hello>>,
      <<tok_date, tok_1800, tok_bye>>,
      <<tok_date, tok_1759, tok_bye>>,
      <<tok_dt1759, tok_x>>,
      <<tok_date, tok_hello>>,
      <<tok_date, tok_10m, tok_hello>>,
      <<tok_at_bob, tok_date, tok_1800>>,
      <<tok_10m, tok_every>>,
      <<tok_10m, tok_every, tok_x>>,
      <<tok_10m, tok_Repeat, tok_0s, tok_x>>,
      <<tok_1s, tok_Repeat, tok_2s>>,
      <<tok_10m, tok_Kazhdye, tok_1h, tok_hi>>,
      <<tok_0s, tok_x>> }

---------------------------------------------------------------------------
(* The command interpreter inside remind *)

_REPEAT_KEYWORDS ==
    { <<"e", "v", "e", "r", "y">>,
      <<"r", "e", "p", "e", "a", "t">>,
      <<"cyr_k", "cyr_a", "cyr_zh", "cyr_d", "cyr_y", "cyr_j">>,
      <<"cyr_k", "cyr_a", "cyr_zh", "cyr_d", "cyr_y", "cyr_e">> }

\* the label "vsekh" that normalize_target_label gives a broadcast
LabelEveryone == <<"cyr_v", "cyr_s", "cyr_e", "cyr_kh">>

\* the fixed text of a reminder without text
DefaultText == <<"<default reminder text>">>

\* (label, is_all); an absent label (None) is the empty string, which the
\* function treats alike
normalize_target_label(label) ==
    IF label = <<>> THEN [label |-> <<>>, is_all |-> FALSE]
    ELSE LET stripped == Strip(LStripChars(label, {"@"}))
         IN  IF Lower(stripped) \in
                  { <<"a", "l", "l">>, <<"cyr_v", "cyr_s", "cyr_e", "cyr_m">> }
             THEN [label |-> LabelEveryone, is_all |-> TRUE]
             ELSE [label |-> label, is_all |-> FALSE]

\* User.mention_html(): a link to the user's id around the escaped name
mention_html(user) ==
    <<"<a href=tg://user?id=">> \o user.id \o <<">">>
        \o HtmlEscape(user.full_name) \o <<"</a>">>

\* has_user stands for a target_user that is not None
format_target_mention(has_user, user, fallback) ==
    IF has_user THEN mention_html(user)
    ELSE LET cleaned == Strip(fallback)
         IN  HtmlEscape(IF cleaned # <<>> /\ Head(cleaned) = "@"
                        THEN cleaned ELSE <<"@">> \o cleaned)

\* TargetSplit with the test of line 264 left out: outside a reply the first
\* of two or more tokens is always taken as the target label
TargetSplitLabelFirst(args, rc) ==
    IF rc.is_reply
    THEN IF args = <<>>
         THEN [err |-> "need_time", target_label |-> <<>>, time_args |-> <<>>]
         ELSE [err |-> "",
               target_label |-> IF rc.from_user.username # <<>>
                                THEN rc.from_user.username
                                ELSE rc.from_user.full_name,
               time_args |-> args]
    ELSE IF args = <<>>
    THEN [err |-> "usage", target_label |-> <<>>, time_args |-> <<>>]
    ELSE IF Len(args) < 2
    THEN [err |-> "usage_target", target_label |-> <<>>, time_args |-> <<>>]
    ELSE [err |-> "", target_label |-> args[1], time_args |-> Tail(args)]

\* remind, lines 242-279: the target label and the time arguments
TargetSplit(args, rc) ==
    IF rc.is_reply
    THEN IF args = <<>>
         THEN [err |-> "need_time", target_label |-> <<>>, time_args |-> <<>>]
         ELSE [err |-> "",
               target_label |-> IF rc.from_user.username # <<>>
                                THEN rc.from_user.username
                                ELSE rc.from_user.full_name,
               time_args |-> args]
    ELSE IF args = <<>>
    THEN [err |-> "usage", target_label |-> <<>>, time_args |-> <<>>]
    ELSE IF parse_duration(args[1]) # 0 \/ parse_datetime_spec(args).ok
    THEN [err |-> "", target_label |-> <<>>, time_args |-> args]
    ELSE IF Len(args) < 2
    THEN [err |-> "usage_target", target_label |-> <<>>, time_args |-> <<>>]
    ELSE [err |-> "", target_label |-> args[1], time_args |-> Tail(args)]

\* DueInstant accepting a datetime equal to now
DueInstantNotBefore(now, delay, parsed_dt) ==
    IF delay # 0
    THEN [err |-> "", consumed |-> 1, due_at |-> now + delay, delay |-> delay]
    ELSE IF ~parsed_dt.ok
    THEN [err |-> "bad_time", consumed |-> 0, due_at |-> 0, delay |-> 0]
    ELSE IF parsed_dt.due_at < now
    THEN [err |-> "past", consumed |-> 0, due_at |-> 0, delay |-> 0]
    ELSE [err |-> "", consumed |-> parsed_dt.consumed,
          due_at |-> parsed_dt.due_at, delay |-> parsed_dt.due_at - now]

\* remind, lines 283-298, with delay and parsed_dt already computed
DueInstant(now, delay, parsed_dt) ==
    IF delay # 0
    THEN [err |-> "", consumed |-> 1, due_at |-> now + delay, delay |-> delay]
    ELSE IF ~parsed_dt.ok
    THEN [err |-> "bad_time", consumed |-> 0, due_at |-> 0, delay |-> 0]
    ELSE IF parsed_dt.due_at <= now
    THEN [err |-> "past", consumed |-> 0, due_at |-> 0, delay |-> 0]
    ELSE [err |-> "", consumed |-> parsed_dt.consumed,
          due_at |-> parsed_dt.due_at, delay |-> parsed_dt.due_at - now]

\* remind, lines 281-298: the due instant
TimeSpec(time_args, now) ==
    DueInstant(now,
               IF time_args # <<>> THEN parse_duration(time_args[1]) ELSE 0,
               parse_datetime_spec(time_args))

\* RepeatClause taking a keyword without a valid interval as reminder text
RepeatClauseLenient(remaining) ==
    IF remaining # <<>> /\ Lower(remaining[1]) \in _REPEAT_KEYWORDS
          /\ Len(remaining) >= 2 /\ parse_duration(remaining[2]) # 0
    THEN [err |-> "", repeat_interval |-> parse_duration(remaining[2]),
          remaining |-> From(remaining, 3)]
    ELSE [err |-> "", repeat_interval |-> 0, remaining |-> remaining]

\* remind, lines 300-309: the repeat clause
RepeatClause(remaining) ==
    IF remaining # <<>> /\ Lower(remaining[1]) \in _REPEAT_KEYWORDS
    THEN IF Len(remaining) < 2
         THEN [err |-> "need_interval", repeat_interval |-> 0, remaining |-> <<>>]
         ELSE IF parse_duration(remaining[2]) = 0
         THEN [err |-> "bad_interval", repeat_interval |-> 0, remaining |-> <<>>]
         ELSE [err |-> "", repeat_interval |-> parse_duration(remaining[2]),
               remaining |-> From(remaining, 3)]
    ELSE [err |-> "", repeat_interval |-> 0, remaining |-> remaining]

\* remind, line 311
ReminderText(remaining) ==
    IF Strip(Join(remaining)) # <<>> THEN Strip(Join(remaining)) ELSE DefaultText

\* remind, lines 321-323, with n the normalized label of line 312
MentionOf(rc, n) ==
    IF n.label = <<>> THEN <<>>
    ELSE IF n.is_all THEN HtmlEscape(n.label)
    ELSE format_target_mention(rc.is_reply, rc.from_user, n.label)

\* remind, lines 312 and 321-323: the mention, the empty string for None
Mention(rc, target_label) == MentionOf(rc, normalize_target_label(target_label))

Rejected(err) ==
    [err |-> err, mention |-> <<>>, text |-> <<>>, due_at |-> 0, delay |-> 0,
     repeat_interval |-> 0, reply_to |-> 0]

\* remind, lines 311-332: the request of a command that parsed
Accepted(rc, ts, tm, rp) ==
    IF rp.err # "" THEN Rejected(rp.err)
    ELSE [err |-> "",
          mention |-> Mention(rc, ts.target_label),
          text |-> ReminderText(rp.remaining),
          due_at |-> tm.due_at,
          delay |-> tm.delay,
          repeat_interval |-> rp.repeat_interval,
          reply_to |-> rc.message_id]

\* remind, lines 300-332, after the time was read
AfterTime(rc, ts, tm) ==
    IF tm.err # "" THEN Rejected(tm.err)
    ELSE Accepted(rc, ts, tm, RepeatClause(From(ts.time_args, tm.consumed + 1)))

\* remind, lines 281-332, after the target was read
AfterTarget(rc, now, ts) ==
    IF ts.err # "" THEN Rejected(ts.err)
    ELSE AfterTime(rc, ts, TimeSpec(ts.time_args, now))

\* remind, lines 236-332: what one command asks for, or why it is rejected.
\* context.job_queue is set by main (line 491), so line 315 never rejects.
Interpret(args, rc, now) == AfterTarget(rc, now, TargetSplit(args, rc))

---------------------------------------------------------------------------
(* The registry chat_data["jobs"]: a dict, kept as the sequence of its     *)
(* entries in insertion order, each entry carrying its key in the field id *)

DictHas(d, key) == \E i \in 1..Len(d) : d[i].id = key

DictIndex(d, key) == CHOOSE i \in 1..Len(d) : d[i].id = key

\* DictSet putting a new key first
DictSetFirst(d, key, entry) ==
    IF DictHas(d, key) THEN [d EXCEPT ![DictIndex(d, key)] = entry]
    ELSE <<entry>> \o d

\* d[key] = entry: an existing key keeps its place, a new key goes last
DictSet(d, key, entry) ==
    IF DictHas(d, key) THEN [d EXCEPT ![DictIndex(d, key)] = entry]
    ELSE Append(d, entry)

\* what d.pop(key, None) leaves in d
DictPop(d, key) ==
    IF DictHas(d, key)
    THEN SubSeq(d, 1, DictIndex(d, key) - 1) \o From(d, DictIndex(d, key) + 1)
    ELSE d

DictKeys(d) == {d[i].id : i \in 1..Len(d)}

---------------------------------------------------------------------------
(* The job queue.  A Job is known by its handle, its index in jobs.  armed *)
(* says that the scheduler still holds the job and will run it; running    *)
(* says that its callback has started and is awaiting send_message.        *)

Handles == 1..Len(jobs)

\* job_id = f"{chat_id}-{int(time.time() * 1000)}"
JobId(chat_id, now) == FormatInt(chat_id) \o <<"-">> \o FormatInt(now * 1000)

\* job_data, lines 325-332
JobData(chat_id, r) ==
    [chat_id |-> chat_id, mention |-> r.mention, text |-> r.text,
     reply_to |-> r.reply_to, due_at |-> r.due_at,
     repeat_interval |-> r.repeat_interval]

\* job_queue.run_repeating(first=delay, interval=...) or run_once(when=delay)
NewJob(name, data, now, delay) ==
    [name |-> name, data |-> data, next_run |-> now + delay,
     armed |-> TRUE, running |-> FALSE]

\* the record remind stores, lines 351-357
Record(job_id, handle, r) ==
    [id |-> job_id, job |-> handle, target |-> r.mention, text |-> r.text,
     due_at |-> r.due_at, repeat_interval |-> r.repeat_interval]

\* ScheduleRemoval emptying the whole job queue
ScheduleRemovalOfAll(js, hs) ==
    [h \in 1..Len(js) |-> IF hs # {} THEN [js[h] EXCEPT !.armed = FALSE] ELSE js[h]]

\* Job.schedule_removal() on each of the handles hs: idempotent
ScheduleRemoval(js, hs) ==
    [h \in 1..Len(js) |-> IF h \in hs THEN [js[h] EXCEPT !.armed = FALSE] ELSE js[h]]

\* ghost: when the job was created, how many of its fires have started, when
\* the last one started, whether a send of it has failed, and whether a
\* completed cancel was about it ("id", "all") or not ("no")
NewHist(now) ==
    [created |-> now, started |-> 0, failed |-> FALSE, last_fire |-> 0,
     cancelled |-> "no"]

\* ghost: a command that was handled: the handler, the chat, the arguments,
\* the replied-to message, the time, the kind of reply and, for an accepted
\* remind, the handle of the job it created
Event(op, chat, args, rc, at, reply, job) ==
    [op |-> op, chat |-> chat, args |-> args, rc |-> rc, at |-> at,
     reply |-> reply, job |-> job]

---------------------------------------------------------------------------
(* The handlers *)

\* the wall clock advances
Tick ==
    /\ clock < MaxClock
    /\ clock' = clock + 1
    /\ UNCHANGED <<chat_data, jobs, deletes, last, hist, calc>>

\* remind, lines 319-376, for the request r of a command that parsed
Schedule(c, r, job_id, handle, sent, ev) ==
    /\ Len(jobs) < MaxJobs
    /\ deletes + 1 + (IF sent THEN 1 ELSE 0) <= MaxDeletes
    /\ jobs' = Append(jobs, NewJob(job_id, JobData(c, r), clock, r.delay))
    /\ chat_data' = [chat_data EXCEPT
                       ![c] = DictSet(@, job_id, Record(job_id, handle, r))]
    /\ deletes' = deletes + 1 + (IF sent THEN 1 ELSE 0)
    /\ last' = [ev EXCEPT !.reply = "scheduled", !.job = handle]
    /\ hist' = Append(hist, NewHist(clock))
    /\ UNCHANGED <<clock, calc>>

\* Reject for a remind that armed its timer before it read the whole command
RejectAfterArming(c, r, ev) ==
    /\ deletes + 1 <= MaxDeletes
    /\ deletes' = deletes + 1
    /\ last' = [ev EXCEPT !.reply = r.err]
    /\ jobs' = Append(jobs, NewJob(JobId(c, clock), JobData(c, r), clock, 1))
    /\ hist' = Append(hist, NewHist(clock))
    /\ UNCHANGED <<clock, chat_data, calc>>

\* remind, the reply of a rejected command
Reject(c, r, ev) ==
    /\ deletes + 1 <= MaxDeletes
    /\ deletes' = deletes + 1
    /\ last' = [ev EXCEPT !.reply = r.err]
    /\ UNCHANGED <<clock, chat_data, jobs, hist, calc>>

RemindRequest(c, r, sent, ev) ==
    IF r.err # "" THEN Reject(c, r, ev)
    ELSE Schedule(c, r, JobId(c, clock), Len(jobs) + 1, sent, ev)

\* Interpret, tabulated once over the commands and instants of the model
Interpreted ==
    [args \in InterpArgs \cup LifeArgs |->
        [rc \in ReplyContexts |->
            [now \in 0..MaxClock |-> Interpret(args, rc, now)]]]

\* remind: the command message is always queued for deletion (line 228);
\* a rejected command replies and returns; an accepted one arms the job,
\* stores the record and, when the confirmation was sent, queues the
\* confirmation for deletion (line 372).
Remind(c, args, rc, sent) ==
    RemindRequest(c, Interpreted[args][rc][clock], sent,
                  Event("remind", c, args, rc, clock, "", 0))

\* list_reminders, lines 384-410: reads the registry, changes none of it
ListReminders(c, sent) ==
    /\ IF chat_data[c] = <<>>
       THEN /\ last' = Event("list", c, <<>>, NoReply, clock, "none_active", 0)
            /\ UNCHANGED deletes
       ELSE /\ deletes + (IF sent THEN 1 ELSE 0) <= MaxDeletes
            /\ deletes' = deletes + (IF sent THEN 1 ELSE 0)
            /\ last' = Event("list", c, <<>>, NoReply, clock, "listing", 0)
    /\ UNCHANGED <<clock, chat_data, jobs, hist, calc>>

\* CancelTarget taking the oldest reminder when there are several
CancelTargetOldest(chat_jobs, arg) ==
    IF arg # <<>> THEN [reply |-> "", job_id |-> arg]
    ELSE IF chat_jobs = <<>> THEN [reply |-> "none_active", job_id |-> <<>>]
    ELSE [reply |-> "", job_id |-> chat_jobs[1].id]

\* cancel, lines 418-441: the id the command is about; arg is context.args[0]
\* or the empty string when there are no arguments
CancelTarget(chat_jobs, arg) ==
    IF arg # <<>> THEN [reply |-> "", job_id |-> arg]
    ELSE IF chat_jobs = <<>> THEN [reply |-> "none_active", job_id |-> <<>>]
    ELSE IF Len(chat_jobs) = 1 THEN [reply |-> "", job_id |-> chat_jobs[1].id]
    ELSE [reply |-> "choose_id", job_id |-> <<>>]

\* Popped falling back on the only reminder of the chat when the id is unknown
PoppedOrOnly(chat_jobs, job_id) ==
    IF DictHas(chat_jobs, job_id) THEN <<chat_jobs[DictIndex(chat_jobs, job_id)]>>
    ELSE IF Len(chat_jobs) = 1 THEN chat_jobs
    ELSE <<>>

\* cancel, line 459: the entries chat_jobs.pop(job_id, None) takes out
Popped(chat_jobs, job_id) ==
    IF DictHas(chat_jobs, job_id) THEN <<chat_jobs[DictIndex(chat_jobs, job_id)]>>
    ELSE <<>>

\* cancel, lines 443-475, for the target t of lines 418-441
CancelOf(chat_jobs, t, gone) ==
    IF t.reply = "none_active"
    THEN [reply |-> "none_active", chat_jobs |-> chat_jobs, removed |-> {},
          html |-> FALSE, job_id |-> <<>>]
    ELSE IF t.reply = "choose_id"
    THEN [reply |-> "choose_id", chat_jobs |-> chat_jobs, removed |-> {},
          html |-> TRUE, job_id |-> <<>>]
    ELSE IF Lower(t.job_id) = <<"a", "l", "l">>
    THEN IF chat_jobs = <<>>
         THEN [reply |-> "none_active", chat_jobs |-> chat_jobs, removed |-> {},
               html |-> FALSE, job_id |-> t.job_id]
         ELSE [reply |-> "all_cancelled", chat_jobs |-> <<>>,
               removed |-> {chat_jobs[i].job : i \in 1..Len(chat_jobs)},
               html |-> TRUE, job_id |-> t.job_id]
    ELSE IF gone = <<>>
    THEN [reply |-> "not_found", chat_jobs |-> chat_jobs, removed |-> {},
          html |-> FALSE, job_id |-> t.job_id]
    ELSE [reply |-> "cancelled", chat_jobs |-> DictPop(chat_jobs, t.job_id),
          removed |-> {gone[1].job}, html |-> TRUE, job_id |-> t.job_id]

\* cancel, lines 418-475: the reply, the registry it leaves, the handles it
\* calls schedule_removal on, and whether a reply_html was awaited
CancelOutcome(chat_jobs, arg) ==
    CancelOf(chat_jobs, CancelTarget(chat_jobs, arg),
             Popped(chat_jobs, CancelTarget(chat_jobs, arg).job_id))

\* ghost: which jobs a completed cancel was about, by the id the user gave
MarkCancelled(c, o) ==
    [h \in 1..Len(hist) |->
        IF o.reply = "cancelled" /\ jobs[h].name = o.job_id
        THEN [hist[h] EXCEPT !.cancelled = "id"]
        ELSE IF o.reply = "all_cancelled" /\ jobs[h].data.chat_id = c
                /\ hist[h].cancelled = "no"
        THEN [hist[h] EXCEPT !.cancelled = "all"]
        ELSE hist[h]]

\* cancel, applied: o is its outcome on the chat's registry
CancelApply(c, o, sent, ev) ==
    /\ deletes + (IF o.html /\ sent THEN 1 ELSE 0) <= MaxDeletes
    /\ chat_data' = [chat_data EXCEPT ![c] = o.chat_jobs]
    /\ jobs' = ScheduleRemoval(jobs, o.removed)
    /\ deletes' = deletes + (IF o.html /\ sent THEN 1 ELSE 0)
    /\ last' = [ev EXCEPT !.reply = o.reply]
    /\ hist' = MarkCancelled(c, o)
    /\ UNCHANGED <<clock, calc>>

\* arg is context.args[0], or the empty string when there are no arguments
Cancel(c, arg, sent) ==
    CancelApply(c, CancelOutcome(chat_data[c], arg), sent,
                Event("cancel", c, IF arg = <<>> THEN <<>> ELSE <<arg>>, NoReply,
                      clock, "", 0))

\* FireStart of a scheduler that keeps a run_once job after running it
FireStartKeeping(h) ==
    /\ jobs[h].armed
    /\ ~jobs[h].running
    /\ clock >= jobs[h].next_run
    /\ jobs' = [jobs EXCEPT
                  ![h].running = TRUE,
                  ![h].next_run = @ + jobs[h].data.repeat_interval]
    /\ hist' = [hist EXCEPT ![h].started = @ + 1, ![h].last_fire = clock]
    /\ UNCHANGED <<clock, chat_data, deletes, last, calc>>

\* the scheduler starts send_reminder for a job that is due.  A run_once job
\* leaves the scheduler when it is run; a run_repeating job gets its next run.
FireStart(h) ==
    /\ jobs[h].armed
    /\ ~jobs[h].running
    /\ clock >= jobs[h].next_run
    /\ jobs' = [jobs EXCEPT
                  ![h].running = TRUE,
                  ![h].armed = jobs[h].data.repeat_interval # 0,
                  ![h].next_run = @ + jobs[h].data.repeat_interval]
    /\ hist' = [hist EXCEPT ![h].started = @ + 1, ![h].last_fire = clock]
    /\ UNCHANGED <<clock, chat_data, deletes, last, calc>>

\* send_reminder, lines 138-143, after send_message returned
AfterSend(h) ==
    IF jobs[h].data.repeat_interval # 0
    THEN /\ jobs' = [jobs EXCEPT
                       ![h].running = FALSE,
                       ![h].data.due_at = clock + jobs[h].data.repeat_interval]
         /\ UNCHANGED chat_data
    ELSE /\ jobs' = [jobs EXCEPT ![h].running = FALSE]
         /\ chat_data' = [chat_data EXCEPT
                            ![jobs[h].data.chat_id] = DictPop(@, jobs[h].name)]

\* send_reminder, line 131, when send_message raises: the callback ends there
AfterSendError(h) ==
    /\ jobs' = [jobs EXCEPT ![h].running = FALSE]
    /\ UNCHANGED chat_data

\* the send_message awaited by send_reminder completes, or raises
FireEnd(h, ok) ==
    /\ jobs[h].running
    /\ IF ok THEN AfterSend(h) ELSE AfterSendError(h)
    /\ hist' = [hist EXCEPT ![h].failed = @ \/ ~ok]
    /\ UNCHANGED <<clock, deletes, last, calc>>

\* delete_message_job runs: the timer is gone whatever delete_message does
DeleteMessageJob ==
    /\ deletes > 0
    /\ deletes' = deletes - 1
    /\ UNCHANGED <<clock, chat_data, jobs, last, hist, calc>>

\* the integers, units and white space a duration text is written from
DurationAmounts == {0, 1, 20, 90}
DurationUnits == {"s", "m", "h", "d", "H", "M"}
DurationGaps == {<<>>, <<" ">>}

\* texts without any (integer, unit) pair
PairlessSpecs ==
    { <<>>, <<"a", "b", "c">>, <<"1", "0">>, <<"m", "1", "0">>, <<"1", "x">>,
      <<"1", "-", "h">> }

\* parse_duration and humanize_delta on a text with one more pair
WritePair(n, u, gap) ==
    /\ Len(calc.pairs) < MaxPairs
    /\ calc.spec \notin PairlessSpecs \/ calc.spec = <<>>
    /\ calc' = Calc(Append(calc.pairs, [amount |-> n, unit |-> u]),
                    calc.spec \o FormatInt(n) \o gap \o <<u>>)
    /\ UNCHANGED <<clock, chat_data, jobs, deletes, last, hist>>

\* parse_duration on a text without pairs
WritePairless(t) ==
    /\ calc' = Calc(<<>>, t)
    /\ UNCHANGED <<clock, chat_data, jobs, deletes, last, hist>>

---------------------------------------------------------------------------
(* The specifications *)

\* an id no reminder of the model ever gets
UnknownId == <<"4", "2", "-", "9">>

\* what a user may type after /cancel: nothing, All, any id handed out so far
\* (in either chat), an id never handed out
CancelArgs ==
    { <<>>, <<"A", "l", "l">>, UnknownId } \cup {jobs[h].name : h \in Handles}

Init ==
    /\ clock = 0
    /\ chat_data = [c \in Chats |-> <<>>]
    /\ jobs = <<>>
    /\ deletes = 0
    /\ last = Event("start", 0, <<>>, NoReply, 0, "", 0)
    /\ calc = Calc(<<>>, <<>>)
    /\ hist = <<>>

Next ==
    \/ Tick
    \/ \E c \in LifeChats, args \in LifeArgs, sent \in BOOLEAN :
          Remind(c, args, NoReply, sent)
    \/ \E c \in LifeChats, sent \in BOOLEAN : ListReminders(c, sent)
    \/ \E c \in LifeChats, arg \in CancelArgs, sent \in BOOLEAN : Cancel(c, arg, sent)
    \/ \E h \in Handles : FireStart(h)
    \/ \E h \in Handles, ok \in BOOLEAN : FireEnd(h, ok)
    \/ DeleteMessageJob

\* the lifecycle of reminders: creation, timer fires, cancellation
Spec == Init /\ [][Next]_vars

NextCancel ==
    \/ Tick
    \/ \E c \in LifeChats, args \in LifeArgs, sent \in BOOLEAN :
          /\ Len(jobs) < MaxCancelJobs
          /\ Remind(c, args, NoReply, sent)
    \/ \E c \in LifeChats, arg \in CancelArgs, sent \in BOOLEAN : Cancel(c, arg, sent)
    \/ \E h \in Handles : FireStart(h)
    \/ \E h \in Handles, ok \in BOOLEAN : FireEnd(h, ok)
    \/ DeleteMessageJob

\* cancel, on the reminders of one chat
SpecCancel == Init /\ [][NextCancel]_vars

\* commands that remind rejects, one of each kind (the datetime is in the
\* past from instant 2 on), and commands with a repeat clause that it accepts
RejectArgs ==
    { <<>>,
      <<tok_at_bob>>,
      <<tok_hello, tok_x>>,
      <<tok_date, tok_1759, tok_bye>>,
      <<tok_10m, tok_every>>,
      <<tok_10m, tok_every, tok_x>>,
      <<tok_10m, tok_Repeat, tok_0s, tok_x>>,
      <<tok_10m, tok_Kazhdye, tok_1h, tok_hi>>,
      <<tok_ALL, tok_10m, tok_every, tok_1h, tok_hi>>,
      <<tok_10m, tok_hello>> }

\* a rejected command is always possible; accepted ones are capped
NextReject ==
    \/ Tick
    \/ \E c \in LifeChats, args \in RejectArgs, rc \in {NoReply, ReplyTo(UserBob)},
          sent \in BOOLEAN :
          /\ Len(jobs) < MaxRejectJobs \/ Interpreted[args][rc][clock].err # ""
          /\ Remind(c, args, rc, sent)
    \/ DeleteMessageJob

\* remind on commands that it rejects, in a chat that may hold a reminder
SpecReject == Init /\ [][NextReject]_vars

\* argument lists of a one-shot reminder
OneShotArgs == { <<tok_1s, tok_x>> }

\* one chat, one-shot reminders, every confirmation sent
NextOneShot ==
    \/ Tick
    \/ \E c \in LifeChats, args \in OneShotArgs :
          /\ Len(jobs) < MaxOneShotJobs
          /\ Remind(c, args, NoReply, TRUE)
    \/ \E c \in LifeChats : ListReminders(c, TRUE)
    \/ \E c \in LifeChats, arg \in CancelArgs : Cancel(c, arg, TRUE)
    \/ \E h \in Handles : FireStart(h)
    \/ \E h \in Handles, ok \in BOOLEAN : FireEnd(h, ok)
    \/ DeleteMessageJob

\* several one-shot reminders in one chat
SpecOneShot == Init /\ [][NextOneShot]_vars

\* two chats, one-shot reminders, every confirmation sent
NextChats ==
    \/ Tick
    \/ \E c \in Chats, args \in OneShotArgs :
          /\ Len(jobs) < MaxChatsJobs
          /\ Remind(c, args, NoReply, TRUE)
    \/ \E c \in Chats : ListReminders(c, TRUE)
    \/ \E c \in Chats, arg \in CancelArgs : Cancel(c, arg, TRUE)
    \/ \E h \in Handles : FireStart(h)
    \/ \E h \in Handles, ok \in BOOLEAN : FireEnd(h, ok)
    \/ DeleteMessageJob

\* reminders in two chats
SpecChats == Init /\ [][NextChats]_vars

\* one chat; a reminder is created only while its due time is within the
\* clock bound
NextFair ==
    \/ Tick
    \/ \E c \in LifeChats, args \in LifeArgs, sent \in BOOLEAN :
          /\ Len(jobs) < MaxFairJobs
          /\ Interpreted[args][NoReply][clock].due_at <= MaxClock
          /\ Remind(c, args, NoReply, sent)
    \/ \E c \in LifeChats, arg \in CancelArgs, sent \in BOOLEAN : Cancel(c, arg, sent)
    \/ \E h \in Handles : FireStart(h)
    \/ \E h \in Handles, ok \in BOOLEAN : FireEnd(h, ok)
    \/ DeleteMessageJob

\* the scheduler runs the job of handle h
FireOf(h) == h \in Handles /\ FireStart(h)

\* time passes, and the scheduler runs every job that stays due
SpecFair ==
    /\ Init /\ [][NextFair]_vars
    /\ WF_vars(Tick)
    /\ \A h \in 1..MaxFairJobs : WF_vars(FireOf(h))

NextDuration ==
    \/ \E n \in DurationAmounts, u \in DurationUnits, gap \in DurationGaps :
          WritePair(n, u, gap)
    \/ \E t \in PairlessSpecs : WritePairless(t)

\* the pure functions parse_duration and humanize_delta on duration texts
SpecDuration == Init /\ [][NextDuration]_vars

NextInterp ==
    \/ Tick
    \/ \E c \in InterpChats, args \in InterpArgs, rc \in ReplyContexts, sent \in BOOLEAN :
          /\ Len(jobs) < MaxInterpJobs
          /\ Remind(c, args, rc, sent)
    \/ DeleteMessageJob

\* the command interpreter of remind on a wide set of commands
SpecInterp == Init /\ [][NextInterp]_vars

---------------------------------------------------------------------------
(* Properties *)

\* the registry of the job's chat holds a record whose "job" is this job
HasRecord(h) ==
    \E i \in 1..Len(chat_data[jobs[h].data.chat_id]) :
        chat_data[jobs[h].data.chat_id][i].job = h

\* the record of job h in the registry of its chat
RecordOf(h) ==
    chat_data[jobs[h].data.chat_id]
        [CHOOSE i \in 1..Len(chat_data[jobs[h].data.chat_id]) :
            chat_data[jobs[h].data.chat_id][i].job = h]

OneShot(h) == jobs[h].data.repeat_interval = 0

\* at least one fire of the job has started and none is in flight
FireCompleted(h) == hist[h].started >= 1 /\ ~jobs[h].running

\* no other job was given the same id
UniqueName(h) == \A g \in Handles : g # h => jobs[g].name # jobs[h].name

\* C1: whenever no fire is in flight, a record is in a chat's registry if and
\* only if a live timer job is armed for it: every record's job is still held
\* by the scheduler (or is running its callback), and every job the scheduler
\* holds has its record.
C1_RecordIffArmed ==
    /\ \A c \in Chats : \A i \in 1..Len(chat_data[c]) :
          jobs[chat_data[c][i].job].armed \/ jobs[chat_data[c][i].job].running
    /\ \A h \in Handles : jobs[h].armed => HasRecord(h)

\* C2: two reminders created in the same chat never have the same id, and a
\* reminder that has neither fired nor been cancelled still has its record,
\* whatever other reminders were created since.
C2_DistinctIds ==
    /\ \A g, h \in Handles :
          g # h /\ jobs[g].data.chat_id = jobs[h].data.chat_id
             => jobs[g].name # jobs[h].name
    /\ \A h \in Handles :
          hist[h].started = 0 /\ hist[h].cancelled = "no" => HasRecord(h)

\* C3: after a fire whose send failed, a one-shot reminder is out of the
\* registry, and a repeating reminder that nobody cancelled is still in the
\* registry with its timer armed.
C3_FailedSendStillTransitions ==
    \A h \in Handles :
        hist[h].failed /\ FireCompleted(h) =>
            IF OneShot(h) THEN ~HasRecord(h)
            ELSE hist[h].cancelled = "no" /\ UniqueName(h)
                    => HasRecord(h) /\ jobs[h].armed

\* C4: once a cancel <id> for a reminder has completed, no fire of that
\* reminder starts: its count of started fires never grows again.
C4_NoFireAfterCancel ==
    [][\A h \in Handles :
          hist[h].cancelled = "id" => hist'[h].started = hist[h].started]_vars

\* C5: a repeating reminder that has fired, with every send delivered and no
\* cancel about it, is in the registry and the due_at of its record is at
\* least the time of its last fire plus its repeat interval.
C5_RepeatingDueAdvances ==
    \A h \in Handles :
        ~OneShot(h) /\ FireCompleted(h) /\ ~hist[h].failed
            /\ hist[h].cancelled = "no" /\ UniqueName(h)
        => /\ HasRecord(h)
           /\ RecordOf(h).due_at >= hist[h].last_fire + jobs[h].data.repeat_interval

\* C6: a one-shot reminder that has fired has no record in the registry.
C6_OneShotAbsentAfterFire ==
    \A h \in Handles : OneShot(h) /\ FireCompleted(h) => ~HasRecord(h)

\* C7: a cancel whose argument is an id that is not in the chat's registry
\* (and is not the word All) replies NotFound and leaves the registry, every
\* reminder job and the pending message-deletion timers as they were.  Only
\* a step that leaves a cancel with an argument as the last event can be
\* such a cancel.
C7_CancelUnknownId ==
    [][last'.op = "cancel" /\ last'.args # <<>> =>
          \A c \in Chats, sent \in BOOLEAN :
              /\ Lower(last'.args[1]) # <<"a", "l", "l">>
              /\ ~DictHas(chat_data[c], last'.args[1])
              /\ Cancel(c, last'.args[1], sent)
              => /\ last'.reply = "not_found"
                 /\ chat_data' = chat_data
                 /\ jobs' = jobs
                 /\ deletes' = deletes]_vars

\* a cancel of an unknown id has just replied NotFound in a chat that has a
\* reminder with an armed timer
C7_Witness ==
    /\ last.op = "cancel"
    /\ last.reply = "not_found"
    /\ last.args # <<>>
    /\ chat_data[last.chat] # <<>>
    /\ \E h \in Handles : jobs[h].armed /\ HasRecord(h)

\* C8: the due_at of every record in a registry is not earlier than the
\* creation of its reminder nor, once a fire of it has completed, than the
\* time of its most recent fire.
C8_DueNotBeforeLastEvent ==
    \A c \in Chats : \A i \in 1..Len(chat_data[c]) :
        /\ chat_data[c][i].due_at >= hist[chat_data[c][i].job].created
        /\ FireCompleted(chat_data[c][i].job)
              => chat_data[c][i].due_at >= hist[chat_data[c][i].job].last_fire

\* what remind makes of the time and text tokens when the target label is
\* already known
TimeAndText(rc, label, tokens, now) ==
    AfterTarget(rc, now, [err |-> "", target_label |-> label, time_args |-> tokens])

\* the job and the record that the last remind created ask for request e
CreatedAs(e, mention) ==
    /\ last.reply = "scheduled"
    /\ jobs[last.job].data.mention = mention
    /\ jobs[last.job].data.text = e.text
    /\ jobs[last.job].data.due_at = e.due_at
    /\ jobs[last.job].data.repeat_interval = e.repeat_interval
    /\ HasRecord(last.job)
    /\ RecordOf(last.job).target = mention
    /\ RecordOf(last.job).text = e.text
    /\ RecordOf(last.job).due_at = e.due_at

\* C9: a remind that replies to a message and is accepted creates a reminder
\* whose target is the mention of that message's author, with all argument
\* tokens read as time and text.
C9_ReplyTargetsAuthor ==
    last.op = "remind" /\ last.rc.is_reply /\ last.reply = "scheduled"
        => CreatedAs(TimeAndText(last.rc, <<>>, last.args, last.at),
                     mention_html(last.rc.from_user))

\* the outcome C10 expects of a time and text reading e: no reminder when the
\* tokens are rejected, else a reminder with the mention and e's fields
AsExpected(e, mention) ==
    IF e.err # "" THEN last.reply # "scheduled" ELSE CreatedAs(e, mention)

\* C10: outside a reply, when tokens[0] parses as a duration or starts an
\* absolute datetime the reminder has no target and all tokens are time and
\* text; otherwise tokens[0] is the target label and the rest are time and
\* text (and a single such token makes no reminder).  The two examples of
\* the specification come out as it says.
C10_TargetDisambiguation ==
    /\ last.op = "remind" /\ ~last.rc.is_reply /\ last.args # <<>>
          => IF parse_duration(last.args[1]) # 0 \/ parse_datetime_spec(last.args).ok
             THEN AsExpected(TimeAndText(NoReply, <<>>, last.args, last.at), <<>>)
             ELSE IF Len(last.args) < 2 THEN last.reply # "scheduled"
             ELSE /\ Mention(NoReply, last.args[1]) # <<>>
                  /\ AsExpected(TimeAndText(NoReply, <<>>, Tail(last.args), last.at),
                                Mention(NoReply, last.args[1]))
    /\ last.op = "remind" /\ ~last.rc.is_reply
          /\ last.args = <<tok_10m, tok_hello>>
          => /\ last.reply = "scheduled"
             /\ jobs[last.job].data.mention = <<>>
             /\ jobs[last.job].data.due_at = last.at + 600
             /\ jobs[last.job].data.text = tok_hello
    /\ last.op = "remind" /\ ~last.rc.is_reply
          /\ last.args = <<tok_at_bob, tok_10m, tok_hello>>
          => /\ last.reply = "scheduled"
             /\ jobs[last.job].data.mention = tok_at_bob
             /\ jobs[last.job].data.due_at = last.at + 600
             /\ jobs[last.job].data.text = tok_hello

\* a command with an explicit target has just been accepted and its reminder
\* is in the registry
C10_Witness ==
    /\ last.op = "remind" /\ ~last.rc.is_reply /\ last.reply = "scheduled"
    /\ last.args = <<tok_at_bob, tok_10m, tok_hello>>
    /\ HasRecord(last.job)

\* the step handles the remind command that the last event then describes
RemindStep ==
    /\ last'.op = "remind"
    /\ \E sent \in BOOLEAN : Remind(last'.chat, last'.args, last'.rc, sent)

\* the step creates no reminder: no job, no record
NoReminderCreated == jobs' = jobs /\ chat_data' = chat_data /\ hist' = hist

\* how remind reads the target and the time of a command: whether both are
\* read without error, the tokens that follow the time specification, and
\* whether the time is an absolute datetime and which
ReadingOf(ts, now) ==
    [time_read |-> ts.err = "" /\ TimeSpec(ts.time_args, now).err = "",
     rest |-> IF ts.err = ""
              THEN From(ts.time_args, TimeSpec(ts.time_args, now).consumed + 1)
              ELSE <<>>,
     absolute |-> /\ ts.err = ""
                  /\ ts.time_args # <<>>
                  /\ parse_duration(ts.time_args[1]) = 0
                  /\ parse_datetime_spec(ts.time_args).ok,
     datetime |-> parse_datetime_spec(ts.time_args).due_at]

\* ReadingOf, tabulated once over the commands and instants of the model
Reading ==
    [args \in InterpArgs \cup LifeArgs |->
        [rc \in ReplyContexts |->
            [now \in 0..MaxClock |-> ReadingOf(TargetSplit(args, rc), now)]]]

\* the reading of the command that the step handles
ReadingOfStep == Reading[last'.args][last'.rc][last'.at]

\* the step has stored a repeating reminder of interval d and text t
StoredRepeating(d, t) ==
    /\ last'.reply = "scheduled"
    /\ d > 0
    /\ jobs' = Append(jobs, jobs'[last'.job])
    /\ jobs'[last'.job].data.repeat_interval = d
    /\ jobs'[last'.job].data.text = t
    /\ \E i \in 1..Len(chat_data'[last'.chat]) :
          /\ chat_data'[last'.chat][i].job = last'.job
          /\ chat_data'[last'.chat][i].repeat_interval = d
          /\ chat_data'[last'.chat][i].text = t

\* the repeat rule of C11 on the tokens rest that follow the time
RepeatRule(rest) ==
    IF Len(rest) >= 2 /\ parse_duration(rest[2]) > 0
    THEN StoredRepeating(parse_duration(rest[2]), ReminderText(From(rest, 3)))
    ELSE /\ last'.reply = IF Len(rest) < 2 THEN "need_interval" ELSE "bad_interval"
         /\ NoReminderCreated

\* C11: when the token after the time specification is a repeat keyword in
\* any letter case, a following token that parses as a positive duration is
\* stored as the repeat interval and both tokens are left out of the text;
\* a missing or unparsable following token gives the repeat interval error
\* and no reminder is created.  ALL 10m every 1h hi gives a broadcast due
\* in 10 minutes repeating every hour with the text hi.
C11_RepeatClause ==
    [][RemindStep =>
          /\ ReadingOfStep.time_read /\ ReadingOfStep.rest # <<>>
                /\ Lower(ReadingOfStep.rest[1]) \in _REPEAT_KEYWORDS
                => RepeatRule(ReadingOfStep.rest)
          /\ last'.args = <<tok_ALL, tok_10m, tok_every, tok_1h, tok_hi>>
                /\ ~last'.rc.is_reply
                => /\ StoredRepeating(3600, tok_hi)
                   /\ jobs'[last'.job].data.mention = LabelEveryone
                   /\ jobs'[last'.job].data.due_at = last'.at + 600]_vars

\* a reminder repeating every hour was created from a command whose keyword
\* is written with a capital letter
C11_Witness ==
    /\ last.op = "remind" /\ last.reply = "scheduled"
    /\ last.args = <<tok_10m, tok_Kazhdye, tok_1h, tok_hi>>
    /\ jobs[last.job].data.repeat_interval = 3600
    /\ jobs[last.job].data.text = tok_hi

\* C12: a remind whose time is an absolute datetime not strictly after the
\* current time replies PastDateTime and creates no reminder; one strictly
\* after the current time is not refused as past.
C12_PastDatetimeRejected ==
    [][RemindStep /\ ReadingOfStep.absolute
          => IF ReadingOfStep.datetime <= last'.at
             THEN last'.reply = "past" /\ NoReminderCreated
             ELSE last'.reply # "past"]_vars

\* a datetime equal to the current time has just been refused
C12_Witness ==
    /\ last.op = "remind" /\ last.reply = "past"
    /\ last.args = <<tok_date, tok_1759, tok_bye>>
    /\ last.at = 2
    /\ jobs = <<>>

\* the replies of a remind that rejects its input
RejectReplies ==
    {"usage", "need_time", "usage_target", "bad_time", "past",
     "need_interval", "bad_interval"}

\* C18: a remind that rejects its input (no arguments, a single token that
\* is no time, an unrecognised time, a past datetime, a missing or invalid
\* repeat interval) leaves the registry as it was and creates no reminder
\* job; a remind that does not reject answers that the reminder is
\* scheduled and stores exactly one job with its record.
C18_RejectCreatesNothing ==
    [][RemindStep =>
          IF last'.reply \in RejectReplies
          THEN NoReminderCreated /\ last'.job = 0
          ELSE /\ last'.reply = "scheduled"
               /\ Len(jobs') = Len(jobs) + 1
               /\ last'.job = Len(jobs')
               /\ \E i \in 1..Len(chat_data'[last'.chat]) :
                     chat_data'[last'.chat][i].job = last'.job]_vars

\* a command with an invalid repeat interval has just been rejected in a
\* chat whose registry holds a reminder with an armed job
C18_Witness ==
    /\ last.op = "remind" /\ last.reply = "bad_interval"
    /\ chat_data[last.chat] # <<>>
    /\ \E h \in Handles : jobs[h].armed /\ HasRecord(h)

\* the seconds that C14 gives one (integer, unit) pair
Contribution(p) ==
    p.amount * (CASE p.unit \in {"s", "S"} -> 1
                  [] p.unit \in {"m", "M"} -> 60
                  [] p.unit \in {"h", "H"} -> 3600
                  [] p.unit \in {"d", "D"} -> 86400)

RECURSIVE SumOfPairs(_)
SumOfPairs(pairs) ==
    IF pairs = <<>> THEN 0 ELSE Contribution(pairs[1]) + SumOfPairs(Tail(pairs))

\* C14: of a text made of (integer, unit) pairs with unit s, m, h or d in
\* either case parse_duration returns the sum of the pairs' contributions in
\* seconds; of a text without a pair or with a sum of zero it returns None.
C14_ParseDurationSum ==
    IF calc.pairs # <<>> /\ SumOfPairs(calc.pairs) > 0
    THEN calc.duration = [ok |-> TRUE, seconds |-> SumOfPairs(calc.pairs)]
    ELSE calc.duration = NoDuration

\* a text of two pairs with an upper-case unit and white space was parsed
C14_Witness ==
    /\ calc.spec = <<"1", " ", "H", "2", "0", "m">>
    /\ calc.duration = [ok |-> TRUE, seconds |-> 4800]

\* the text of the pairs, in the order given
RECURSIVE PairsText(_)
PairsText(pairs) ==
    IF pairs = <<>> THEN <<>>
    ELSE FormatInt(pairs[1].amount) \o <<pairs[1].unit>> \o PairsText(Tail(pairs))

Backwards(seq) == [i \in 1..Len(seq) |-> seq[Len(seq) + 1 - i]]

\* one component of the canonical rendering: nothing when it is zero
Component(n, suffix) == IF n = 0 THEN <<>> ELSE <<FormatInt(n) \o <<suffix>>>>

\* days, hours, minutes and seconds of a total, largest first, zero ones
\* omitted, separated by one space
Canonical(total) ==
    Join(Component(total \div 86400, "d")
         \o Component((total % 86400) \div 3600, "h")
         \o Component((total % 3600) \div 60, "m")
         \o Component(total % 60, "s"))

\* C15: the rendering humanize_delta(parse_duration(x)) is the canonical one
\* of the total of x (largest unit first, zero components omitted) and is
\* the same for the text with the pairs of x in the opposite order; 1h20m
\* and 20m1h both give "1h 20m".
C15_HumanizeCanonical ==
    /\ calc.duration.ok =>
          /\ calc.text = Canonical(calc.duration.seconds)
          /\ ParsedDuration(PairsText(Backwards(calc.pairs))).ok
          /\ humanize_delta(ParsedDuration(PairsText(Backwards(calc.pairs))).seconds)
                = calc.text
    /\ calc.spec \in { <<"1", "h", "2", "0", "m">>, <<"2", "0", "m", "1", "h">> }
          => calc.text = <<"1", "h", " ", "2", "0", "m">>

\* 20m1h was parsed and rendered
C15_Witness ==
    /\ calc.spec = <<"2", "0", "m", "1", "h">>
    /\ calc.pairs = <<[amount |-> 20, unit |-> "m"], [amount |-> 1, unit |-> "h"]>>
    /\ calc.text # <<>>

\* C13: list_reminders goes through the registry of the chat in its order
\* (line 391), and that order is the order of creation: of two records the
\* one listed first belongs to the reminder created first.
C13_ListInCreationOrder ==
    \A c \in Chats : \A i, j \in 1..Len(chat_data[c]) :
        i < j => /\ chat_data[c][i].job < chat_data[c][j].job
                 /\ hist[chat_data[c][i].job].created
                       <= hist[chat_data[c][j].job].created

\* list has just shown two reminders created at different times
C13_Witness ==
    /\ last.op = "list" /\ last.reply = "listing"
    /\ Len(chat_data[last.chat]) = 2
    /\ hist[chat_data[last.chat][1].job].created
          < hist[chat_data[last.chat][2].job].created

\* the step handles the cancel without argument that the last event describes
CancelNoArgStep ==
    /\ last'.op = "cancel"
    /\ last'.args = <<>>
    /\ \E sent \in BOOLEAN : Cancel(last'.chat, <<>>, sent)

\* the jobs after schedule_removal on job g alone
Disarmed(g) ==
    [h \in 1..Len(jobs) |-> IF h = g THEN [jobs[h] EXCEPT !.armed = FALSE] ELSE jobs[h]]

\* C20: a cancel without argument in a chat with exactly one reminder takes
\* its record out and disarms its job; in a chat with no reminder or with
\* two or more it leaves the registry and every reminder job as they were.
C20_CancelNoArgument ==
    [][CancelNoArgStep =>
          IF Len(chat_data[last'.chat]) = 1
          THEN /\ last'.reply = "cancelled"
               /\ chat_data' = [chat_data EXCEPT ![last'.chat] = <<>>]
               /\ jobs' = Disarmed(chat_data[last'.chat][1].job)
          ELSE /\ last'.reply =
                     IF chat_data[last'.chat] = <<>> THEN "none_active" ELSE "choose_id"
               /\ chat_data' = chat_data
               /\ jobs' = jobs]_vars

\* a cancel without argument has just been answered in a chat that holds two
\* reminders with armed jobs
C20_Witness ==
    /\ last.op = "cancel" /\ last.args = <<>> /\ last.reply = "choose_id"
    /\ Len(chat_data[last.chat]) = 2
    /\ \A i \in 1..2 : jobs[chat_data[last.chat][i].job].armed

\* C16: a one-shot reminder that nobody cancels has its send attempted at
\* some time (the scheduler being fair), and never a second time.
C16_OneShotExactlyOnce ==
    /\ \A h \in 1..MaxFairJobs :
          (h \in Handles /\ OneShot(h))
             ~> (h \in Handles /\ (hist[h].started >= 1 \/ hist[h].cancelled # "no"))
    /\ [](\A h \in Handles : OneShot(h) => hist[h].started <= 1)

\* a one-shot reminder that nobody cancelled has had its one send
C16_Witness ==
    \E h \in Handles :
        /\ OneShot(h) /\ hist[h].cancelled = "no"
        /\ hist[h].started = 1 /\ ~jobs[h].running /\ ~jobs[h].armed

\* the step handles the cancel All that the last event describes
CancelAllStep ==
    /\ last'.op = "cancel"
    /\ last'.reply = "all_cancelled"
    /\ \E sent \in BOOLEAN : Cancel(last'.chat, last'.args[1], sent)

\* C17: a cancel All in a chat with a reminder leaves the registry of the
\* chat empty and no reminder job of the chat armed, and no reminder that it
\* was about starts a send afterwards.
C17_CancelAllDisarms ==
    [][/\ CancelAllStep
          => /\ chat_data'[last'.chat] = <<>>
             /\ \A h \in Handles :
                   jobs[h].data.chat_id = last'.chat => ~jobs'[h].armed
       /\ \A h \in Handles :
             hist[h].cancelled = "all" => hist'[h].started = hist[h].started]_vars

\* the step is a command handled in a chat other than b, or the start or the
\* end of a send_reminder of a job of a chat other than b
OfAnotherChat(b) ==
    IF last' # last THEN last'.chat # b
    ELSE \E h \in Handles :
            /\ jobs'[h].running # jobs[h].running
            /\ jobs[h].data.chat_id # b

\* C19: a remind, cancel or list handled in one chat, and a timer fire of a
\* reminder of one chat, leave the registry and the reminder jobs of every
\* other chat as they were.
C19_ChatsAreIndependent ==
    [][\A b \in Chats :
          OfAnotherChat(b)
          => /\ chat_data'[b] = chat_data[b]
             /\ \A h \in Handles : jobs[h].data.chat_id = b => jobs'[h] = jobs[h]
             /\ \A h \in 1..Len(jobs') : h \notin Handles => jobs'[h].data.chat_id # b]_vars

\* a cancel All has just been handled in one chat while the other chat holds
\* a reminder whose job is armed
C19_Witness ==
    /\ last.op = "cancel" /\ last.reply = "all_cancelled" /\ last.chat = 42
    /\ chat_data[-100] # <<>>
    /\ jobs[chat_data[-100][1].job].armed
    /\ chat_data[42] = <<>>

=============================================================================
